---- MODULE Spec2Model ----
(***************************************************************************)
(* Model of the RippleEffect component (src/unnamed/part_000): the pointer *)
(* tracker, the triple-buffered wave simulation driven by the useFrame     *)
(* callback, the image materials that sample the simulation output, and    *)
(* the React lifecycle (commit, effects, re-render, unmount).              *)
(*                                                                         *)
(* Real numbers are fixed-point integers with ONE standing for 1.0; a      *)
(* product is rescaled with floor division, a square root is the integer   *)
(* square root.  The 512x512 grid is scaled down to RESOLUTION cells per   *)
(* side; a cell is sampled at its centre, as the fullscreen quad does.     *)
(***************************************************************************)
EXTENDS Integers, Naturals, Sequences, FiniteSets, TLC

VARIABLES
    settings,            \* the settings prop (index.js rippleSettings)
    phase,               \* "committed" (rendered, effects pending), "mounted", "unmounted"
    mouseRef,            \* mouseRef.current
    prevMouseRef,        \* prevMouseRef.current
    mouseVelocityRef,    \* mouseVelocityRef.current
    isPointerInsideRef,  \* isPointerInsideRef.current
    pingPongRef,         \* pingPongRef.current
    renderTargets,       \* red channel of the three render targets, per cell
    quadMeshRef,         \* quadMeshRef.current: "null" or "mesh"
    fluidUniforms,       \* the state textures and velocity of fluidUpdateMaterial.uniforms
                         \* and the render target of the last step; the other uniforms
                         \* are rewritten by every step before the shader reads them
    textures,            \* the textures of the current render
    imageMaterials,      \* the image materials of the current render
    cleanupCapture,      \* resources captured by the closure of the cleanup effect
    created,             \* every GPU resource created so far
    disposed,            \* every GPU resource dispose() was called on
    renders,             \* number of re-renders so far
    frames,              \* number of executed simulation steps
    ppHist,              \* history: pingPongRef before each of the last three steps
    lastSamplePos,       \* history: mouse position sampled by the last executed frame
    leavePos,            \* history: position held at the last onLeave since that frame
    reentry,             \* history: LeftPos once the pointer left from inside, then the position of re-entry
    obs,                 \* history: what the step of the frame just run sampled
    composite,           \* history: what the composite of the frame just run sampled
    imageAspectsRef,     \* imageAspectsRef.current
    loaded,              \* textures whose load callback has run
    hist,                \* history: the fields written by the last steps, newest first
    probe                \* inputs and result of one evaluation of a shader function

vars == << settings, phase, mouseRef, prevMouseRef, mouseVelocityRef,
           isPointerInsideRef, pingPongRef, renderTargets, quadMeshRef,
           fluidUniforms, textures, imageMaterials, cleanupCapture, created,
           disposed, renders, frames, ppHist, lastSamplePos, leavePos,
           reentry, obs, composite, imageAspectsRef, loaded, hist, probe >>

(***************************************************************************)
(* Bounds of the model.                                                    *)
(***************************************************************************)
RESOLUTION == 3
MaxFrames == 5
MaxPointerFrames == 2
MaxRenders == 1
NumImages == 2

(***************************************************************************)
(* Fixed-point arithmetic.                                                 *)
(***************************************************************************)
ONE == 10 ^ 4

Mul(a, b) == (a * b) \div ONE

Min(a, b) == IF a <= b THEN a ELSE b

Max(a, b) == IF a >= b THEN a ELSE b

Clamp(x, lo, hi) == Min(Max(x, lo), hi)

RECURSIVE SqrtIter(_, _)
SqrtIter(n, x) ==
    LET y == (x + n \div x) \div 2
    IN  IF y >= x THEN x ELSE SqrtIter(n, y)

Sqrt(n) == IF n = 0 THEN 0 ELSE SqrtIter(n, n)

\* GLSL mix(x, y, a) = x*(1-a) + y*a
Mix(x, y, a) == (x * (ONE - a) + y * a) \div ONE

\* GLSL distance(p, q) and Math.sqrt(dx*dx + dy*dy)
Distance(p, q) ==
    Sqrt((p.x - q.x) * (p.x - q.x) + (p.y - q.y) * (p.y - q.y))

SmoothstepAscending(edge0, edge1, x) ==
    LET lo == Min(edge0, edge1)
        hi == Max(edge0, edge1)
        t == Clamp(((x - lo) * ONE) \div (hi - lo), 0, ONE)
    IN  Mul(Mul(t, t), 3 * ONE - 2 * t)

\* GLSL smoothstep(edge0, edge1, x)
Smoothstep(edge0, edge1, x) ==
    LET t == Clamp(((x - edge0) * ONE) \div (edge1 - edge0), 0, ONE)
    IN  Mul(Mul(t, t), 3 * ONE - 2 * t)

(***************************************************************************)
(* Data.                                                                   *)
(***************************************************************************)
Buffers == 0 .. 2

Cells == (0 .. RESOLUTION - 1) \X (0 .. RESOLUTION - 1)

\* vUv of the fragment at cell c: the centre of the cell
CellUv(c) ==
    [x |-> ((2 * c[1] + 1) * ONE) \div (2 * RESOLUTION),
     y |-> ((2 * c[2] + 1) * ONE) \div (2 * RESOLUTION)]

ZeroField == [c \in Cells |-> 0]

\* content of a render target that was never cleared
GarbageField == [c \in Cells |-> 1234 + 100 * c[1] + 10 * c[2]]

\* the two rippleSettings of index.js
SettingsSet ==
    { [intensity |-> 600, scale |-> 500, viscosity |-> 8900, decay |-> 9800],
      [intensity |-> 1200, scale |-> 1000, viscosity |-> 8900, decay |-> 9800] }

\* canvas.getBoundingClientRect()
CanvasRect == [left |-> 100, top |-> 50, width |-> 10000, height |-> 5000]

\* clientX, clientY of the pointer events
ClientPoints ==
    { << 5100, 2550 >>,    \* the centre of the canvas
      << 5101, 2550 >>,    \* 0.0001 to the right of the centre
      << 100, 50 >>,       \* the top left corner of the canvas
      << 99, 2550 >>,      \* left of the canvas
      << 10101, 2550 >>,   \* right of the canvas
      << 5100, 49 >>,      \* above the canvas
      << 5100, 5051 >> }   \* below the canvas

InitialMouse == [x |-> ONE \div 2, y |-> ONE \div 2]

NoPos == [x |-> -1, y |-> -1]

LeftPos == [x |-> -2, y |-> -2]

VelocityThreshold == ONE \div 10000

(***************************************************************************)
(* fluidUpdateShader: one fragment of the simulation step.                 *)
(***************************************************************************)
TexelZeroBorder(field, c, di, dj) ==
    IF /\ c[1] + di \in 0 .. RESOLUTION - 1
       /\ c[2] + dj \in 0 .. RESOLUTION - 1
    THEN field[<< c[1] + di, c[2] + dj >>]
    ELSE 0

\* texture2D of a render target at the centre of a neighbouring cell; the
\* render targets keep three.js's default ClampToEdge wrapping
Texel(field, c, di, dj) ==
    field[<< Clamp(c[1] + di, 0, RESOLUTION - 1),
             Clamp(c[2] + dj, 0, RESOLUTION - 1) >>]

DampedWaveFirstOrder(cur, prv, c, u) ==
    LET current == Texel(cur, c, 0, 0)
        left == Texel(cur, c, -1, 0)
        right == Texel(cur, c, 1, 0)
        top == Texel(cur, c, 0, 1)
        bottom == Texel(cur, c, 0, -1)
        neighbors == Mul(left + right + top + bottom, ONE \div 4)
        wave == Mix(current, neighbors, u.uViscosity)
    IN  Mul(wave, u.uDecay)

\* lines 41-53: wave equation with viscosity and decay
DampedWave(cur, prv, c, u) ==
    LET current == Texel(cur, c, 0, 0)
        prev == Texel(prv, c, 0, 0)
        left == Texel(cur, c, -1, 0)
        right == Texel(cur, c, 1, 0)
        top == Texel(cur, c, 0, 1)
        bottom == Texel(cur, c, 0, -1)
        neighbors == Mul(left + right + top + bottom, ONE \div 4)
        wave == Mix(current, neighbors * 2 - prev, u.uViscosity)
    IN  Mul(wave, u.uDecay)

MixPos(p, q, t) == [x |-> Mix(p.x, q.x, t), y |-> Mix(p.y, q.y, t)]

Pow2(x) == Mul(x, x)

\* lines 66-72: the trail loop, i = 0 .. 7
RECURSIVE TrailRipple(_, _, _, _)
TrailRipple(uv, u, i, ripple) ==
    IF i >= 8 THEN ripple
    ELSE LET t == (i * ONE) \div 8
             trailPos == MixPos(u.uPrevMouse, u.uMouse, t)
             d == Distance(uv, trailPos)
             trailRipple == Smoothstep(Mul(u.uRadius, (7 * ONE) \div 10), 0, d)
         IN  TrailRipple(uv, u, i + 1, Max(ripple, Pow2(trailRipple)))

FinalRippleUnsaturated(uv, u) ==
    LET dist == Distance(uv, u.uMouse)
        ripple == TrailRipple(uv, u, 0, Pow2(Smoothstep(u.uRadius, 0, dist)))
    IN  Mul(Mul(ripple, u.uIntensity), u.uMouseVelocity * 10)

\* lines 57-75: the ripple term added when the guard of line 56 holds
FinalRipple(uv, u) ==
    LET dist == Distance(uv, u.uMouse)
        ripple == TrailRipple(uv, u, 0, Pow2(Smoothstep(u.uRadius, 0, dist)))
    IN  Mul(Mul(ripple, u.uIntensity), Min(u.uMouseVelocity * 10, ONE))

InjectsRippleAtThreshold(velocity) == velocity >= VelocityThreshold

\* line 56: the guard of the ripple injection
InjectsRipple(velocity) == velocity > VelocityThreshold

\* lines 56-77: what the fragment at uv adds to the wave value
InjectedAt(uv, u) ==
    IF InjectsRipple(u.uMouseVelocity) THEN FinalRipple(uv, u) ELSE 0

\* lines 37-80: the value written for the fragment at cell c
FluidUpdate(cur, prv, c, u) ==
    DampedWave(cur, prv, c, u) + InjectedAt(CellUv(c), u)

(***************************************************************************)
(* imageFragmentShader: one fragment of the composite of an image plane.   *)
(***************************************************************************)
FDiv(a, b) == (a * ONE) \div b

CoverUvOffset(uv, imageAspect, planeAspect) ==
    LET ratio == [x |-> Min(FDiv(planeAspect, imageAspect), ONE),
                  y |-> Min(FDiv(imageAspect, planeAspect), ONE)]
    IN  [x |-> Mul(uv.x, ratio.x) + Mul(ratio.x, ONE \div 2),
         y |-> Mul(uv.y, ratio.y) + Mul(ratio.y, ONE \div 2)]

\* lines 117-126
CoverUv(uv, imageAspect, planeAspect) ==
    LET ratio == [x |-> Min(FDiv(planeAspect, imageAspect), ONE),
                  y |-> Min(FDiv(imageAspect, planeAspect), ONE)]
    IN  [x |-> Mul(uv.x, ratio.x) + Mul(ONE - ratio.x, ONE \div 2),
         y |-> Mul(uv.y, ratio.y) + Mul(ONE - ratio.y, ONE \div 2)]

Dot3(v, w) == Mul(v.x, w.x) + Mul(v.y, w.y) + Mul(v.z, w.z)

\* GLSL normalize of a vec3
Normalize3(v) ==
    LET len == Sqrt(v.x * v.x + v.y * v.y + v.z * v.z)
    IN  [x |-> FDiv(v.x, len), y |-> FDiv(v.y, len), z |-> FDiv(v.z, len)]

\* lines 128-142; d holds the four samples of uDisplacement around the
\* fragment
CalculateNormal(d, strength) ==
    Normalize3([x |-> (d.left - d.right) * strength,
                y |-> (d.bottom - d.top) * strength,
                z |-> ONE])

\* GLSL pow(x, n) for a whole n
RECURSIVE IntPow(_, _)
IntPow(x, n) == IF n = 0 THEN ONE ELSE Mul(x, IntPow(x, n - 1))

Abs(x) == IF x < 0 THEN -x ELSE x

\* texture2D(uTexture, uv) of an image whose colour is a ramp; the wrapping
\* is three.js's default ClampToEdge
Texture2D(uv) ==
    LET x == Clamp(uv.x, 0, ONE)
        y == Clamp(uv.y, 0, ONE)
    IN  [r |-> x, g |-> y, b |-> ONE - x]

\* line 162
ClampUv(uv) ==
    [x |-> Clamp(uv.x, ONE \div 1000, ONE - ONE \div 1000),
     y |-> Clamp(uv.y, ONE \div 1000, ONE - ONE \div 1000)]

RippleMaskInverted(normalDeviation) ==
    ONE - Smoothstep(ONE \div 100, ONE \div 10, normalDeviation)

\* line 175
RippleMask(normalDeviation) ==
    Smoothstep(ONE \div 100, ONE \div 10, normalDeviation)

\* distortionStrength, aberration, lightIntensity of index.js; the
\* specular power 8.1 is taken as the whole power 8
ImageSettings ==
    [uDistortionStrength |-> 500, uAberration |-> 100, uLightIntensity |-> 400,
     uSpecularPower |-> 8]

\* lines 144-193
ImageFragment(vUv, d, imageAspect, planeAspect, s) ==
    LET coveredUv == CoverUv(vUv, imageAspect, planeAspect)
        normal == CalculateNormal(d, 50)
        normalDeviation == Sqrt(normal.x * normal.x + normal.y * normal.y)
        distortedUv ==
            ClampUv([x |-> coveredUv.x + Mul(normal.x, s.uDistortionStrength),
                     y |-> coveredUv.y + Mul(normal.y, s.uDistortionStrength)])
        aberrationAmount == Mul(s.uAberration, Abs(normal.x) + Abs(normal.y))
        colorR == Texture2D([distortedUv EXCEPT !.x = @ + aberrationAmount])
        colorG == Texture2D(distortedUv)
        colorB == Texture2D([distortedUv EXCEPT !.x = @ - aberrationAmount])
        rippleMask == RippleMask(normalDeviation)
        lightDir == Normalize3([x |-> ONE \div 2, y |-> ONE \div 2, z |-> ONE])
        viewDir == [x |-> 0, y |-> 0, z |-> ONE]
        halfDir == Normalize3([x |-> lightDir.x + viewDir.x,
                               y |-> lightDir.y + viewDir.y,
                               z |-> lightDir.z + viewDir.z])
        specular ==
            Mul(IntPow(Max(Dot3(normal, halfDir), 0), s.uSpecularPower),
                Mul(s.uLightIntensity, rippleMask))
        fresnel == Pow2(ONE - Max(Dot3(normal, viewDir), 0))
        fresnelLight ==
            Mul(Mul(Mul(fresnel, s.uLightIntensity), ONE \div 10), rippleMask)
    IN  [rippleMask |-> rippleMask, specular |-> specular,
         fresnel |-> fresnelLight,
         color |-> [r |-> colorR.r + specular + fresnelLight,
                    g |-> colorG.g + specular + fresnelLight,
                    b |-> colorB.b + specular + fresnelLight]]

(***************************************************************************)
(* Resources.                                                              *)
(***************************************************************************)
RenderTargetIds == { << "renderTarget", b >> : b \in Buffers }

FixedResources ==
    RenderTargetIds \cup { << "quadGeometry", 0 >>, << "fluidUpdateMaterial", 0 >> }

\* textures of render number gen (lines 300-315)
NewTextures(gen) == [i \in 1 .. NumImages |-> << "texture", gen, i >>]

\* image materials of render number gen (lines 318-340): uDisplacement
\* starts as renderTargets[0].texture, uImageAspect as the slot of
\* imageAspectsRef with the index of the image
NewImageMaterials(gen, texs, aspects) ==
    [i \in 1 .. Len(texs) |->
        [id |-> << "imageMaterial", gen, i >>, uTexture |-> texs[i],
         uDisplacement |-> 0, uImageAspect |-> aspects[i], fresh |-> TRUE]]

SeqRange(s) == { s[i] : i \in 1 .. Len(s) }

MaterialIds(mats) == { mats[i].id : i \in 1 .. Len(mats) }

(***************************************************************************)
(* Initial state: the first render is committed, no effect has run.        *)
(***************************************************************************)
\* lines 257-269: the state textures are null and the velocity 0 at creation;
\* no render target is bound
InitialUniforms(s) ==
    [uPrevState |-> -1, uCurrentState |-> -1, uMouseVelocity |-> 0, target |-> -1]

\* no shader function is being evaluated
NoProbe == [kind |-> "none"]

\* no frame has just run
NoObs ==
    [stepped |-> FALSE, inside |-> FALSE, mouse |-> NoPos, prev |-> NoPos,
     last |-> NoPos, leave |-> NoPos, reentry |-> NoPos, velocity |-> 0,
     clean |-> FALSE, uViscosity |-> 0, uDecay |-> 0, uRadius |-> 0]

NoComposite ==
    [drawn |-> FALSE, stepped |-> FALSE, written |-> -1, sampled |-> << >>,
     fresh |-> FALSE, indexBefore |-> -1, aspects |-> << >>, drawnTextures |-> << >>,
     drawnMaterials |-> {}]

InitState(ss, ph, rts, quad, pr) ==
    /\ settings \in ss
    /\ phase = ph
    /\ mouseRef = InitialMouse
    /\ prevMouseRef = InitialMouse
    /\ mouseVelocityRef = 0
    /\ isPointerInsideRef = FALSE
    /\ pingPongRef = 0
    /\ renderTargets \in rts
    /\ quadMeshRef = quad
    /\ fluidUniforms = InitialUniforms(settings)
    /\ textures = NewTextures(0)
    /\ imageAspectsRef = [i \in 1 .. NumImages |-> ONE]
    /\ imageMaterials = NewImageMaterials(0, textures, imageAspectsRef)
    /\ cleanupCapture = {}
    /\ created = FixedResources \cup SeqRange(textures) \cup MaterialIds(imageMaterials)
    /\ disposed = {}
    /\ renders = 0
    /\ frames = 0
    /\ ppHist = << >>
    /\ lastSamplePos = NoPos
    /\ leavePos = NoPos
    /\ reentry = NoPos
    /\ obs = NoObs
    /\ composite = NoComposite
    /\ loaded = {}
    /\ hist = << renderTargets[0], renderTargets[2], renderTargets[1] >>
    /\ probe \in pr

\* the first render is committed; the render targets hold whatever the GPU
\* memory held
Init ==
    InitState(SettingsSet, "committed", [Buffers -> {ZeroField, GarbageField}],
              "null", {NoProbe})

(***************************************************************************)
(* Pointer tracking (lines 343-382).                                       *)
(***************************************************************************)
\* line 348
NormalizedX(clientX) == ((clientX - CanvasRect.left) * ONE) \div CanvasRect.width

\* line 349
NormalizedY(clientY) ==
    ONE - ((clientY - CanvasRect.top) * ONE) \div CanvasRect.height

\* line 351
IsInside(x, y) == x >= 0 /\ x <= ONE /\ y >= 0 /\ y <= ONE

UpdatedMouseAlways(inside, x, y, mouse) == [x |-> x, y |-> y]

\* lines 354-357: the position stored by updatePointer
UpdatedMouse(inside, x, y, mouse) == IF inside THEN [x |-> x, y |-> y] ELSE mouse

\* lines 346-362: handlePointerMove -> updatePointer
OnMove(p) ==
    /\ phase = "mounted"
    /\ frames < MaxPointerFrames
    /\ LET x == NormalizedX(p[1])
           y == NormalizedY(p[2])
           inside == IsInside(x, y)
       IN  /\ isPointerInsideRef' = inside
           /\ mouseRef' = UpdatedMouse(inside, x, y, mouseRef)
           /\ reentry' = IF inside /\ reentry = LeftPos THEN mouseRef' ELSE reentry
    /\ obs' = NoObs
    /\ composite' = NoComposite
    /\ UNCHANGED << imageAspectsRef, loaded, hist, probe >>
    /\ UNCHANGED << settings, phase, prevMouseRef, mouseVelocityRef, pingPongRef,
                    renderTargets, quadMeshRef, fluidUniforms, textures,
                    imageMaterials, cleanupCapture, created, disposed, renders,
                    frames, ppHist, lastSamplePos, leavePos >>

LeavePrevMouseKept(mouse, prev) == prev

\* lines 367-368: the previous position stored by handlePointerLeave
LeavePrevMouse(mouse, prev) == mouse

\* lines 364-369: handlePointerLeave
OnLeave ==
    /\ phase = "mounted"
    /\ frames < MaxPointerFrames
    /\ isPointerInsideRef' = FALSE
    /\ prevMouseRef' = LeavePrevMouse(mouseRef, prevMouseRef)
    /\ leavePos' = mouseRef
    /\ reentry' = IF isPointerInsideRef THEN LeftPos ELSE reentry
    /\ obs' = NoObs
    /\ composite' = NoComposite
    /\ UNCHANGED << imageAspectsRef, loaded, hist, probe >>
    /\ UNCHANGED << settings, phase, mouseRef, mouseVelocityRef, pingPongRef,
                    renderTargets, quadMeshRef, fluidUniforms, textures,
                    imageMaterials, cleanupCapture, created, disposed, renders,
                    frames, ppHist, lastSamplePos >>

(***************************************************************************)
(* Effects (lines 276-294, 343-382, 458-467).                              *)
(***************************************************************************)
ClearFirstRenderTarget(rts) == [rts EXCEPT ![0] = ZeroField]

\* lines 277-283: every render target is bound and its colour cleared
ClearRenderTargets(rts) == [b \in Buffers |-> ZeroField]

\* the passive effects of the first commit, run in declaration order in one
\* flush: clear the render targets, set up the quad mesh, add the pointer
\* listeners, register the cleanup with the resources of this render
RunEffects ==
    /\ phase = "committed"
    /\ phase' = "mounted"
    /\ renderTargets' = ClearRenderTargets(renderTargets)
    /\ quadMeshRef' = "mesh"
    /\ hist' = << ZeroField, ZeroField, ZeroField >>
    /\ UNCHANGED << imageAspectsRef, loaded, probe >>
    /\ cleanupCapture' =
           FixedResources \cup MaterialIds(imageMaterials) \cup SeqRange(textures)
    /\ obs' = NoObs
    /\ composite' = NoComposite
    /\ UNCHANGED << settings, mouseRef, prevMouseRef, mouseVelocityRef,
                    isPointerInsideRef, pingPongRef, fluidUniforms, textures,
                    imageMaterials, created, disposed, renders, frames, ppHist,
                    lastSamplePos, leavePos, reentry >>

\* a re-render with a new viewport size: useMemo of line 318 builds new
\* image materials; the effects have constant dependencies and do not re-run
ViewportResize ==
    /\ phase = "mounted"
    /\ renders < MaxRenders
    /\ renders' = renders + 1
    /\ imageMaterials' = NewImageMaterials(renders', textures, imageAspectsRef)
    /\ created' = created \cup MaterialIds(imageMaterials')
    /\ obs' = NoObs
    /\ composite' = NoComposite
    /\ UNCHANGED << imageAspectsRef, loaded, hist, probe >>
    /\ UNCHANGED << settings, phase, mouseRef, prevMouseRef, mouseVelocityRef,
                    isPointerInsideRef, pingPongRef, renderTargets, quadMeshRef,
                    fluidUniforms, textures, cleanupCapture, disposed, frames,
                    ppHist, lastSamplePos, leavePos, reentry >>

\* a re-render with a new images prop: useMemo of line 300 loads new
\* textures and useMemo of line 318 builds new image materials
ImagesChange ==
    /\ phase = "mounted"
    /\ renders < MaxRenders
    /\ renders' = renders + 1
    /\ textures' = NewTextures(renders')
    /\ imageMaterials' = NewImageMaterials(renders', textures', imageAspectsRef)
    /\ created' = created \cup SeqRange(textures') \cup MaterialIds(imageMaterials')
    /\ obs' = NoObs
    /\ composite' = NoComposite
    /\ UNCHANGED << imageAspectsRef, loaded, hist, probe >>
    /\ UNCHANGED << settings, phase, mouseRef, prevMouseRef, mouseVelocityRef,
                    isPointerInsideRef, pingPongRef, renderTargets, quadMeshRef,
                    fluidUniforms, cleanupCapture, disposed, frames, ppHist,
                    lastSamplePos, leavePos, reentry >>

\* lines 460-466: what the cleanup of the []-dependency effect disposes: the
\* values its closure captured
CleanupDisposes(captured, mats, texs) == captured

\* unmount: the cleanups run, the frame callback and the listeners are removed
Unmount ==
    /\ phase = "mounted"
    /\ phase' = "unmounted"
    /\ disposed' = disposed \cup CleanupDisposes(cleanupCapture, imageMaterials, textures)
    /\ obs' = NoObs
    /\ composite' = NoComposite
    /\ UNCHANGED << imageAspectsRef, loaded, hist, probe >>
    /\ UNCHANGED << settings, mouseRef, prevMouseRef, mouseVelocityRef,
                    isPointerInsideRef, pingPongRef, renderTargets, quadMeshRef,
                    fluidUniforms, textures, imageMaterials, cleanupCapture,
                    created, renders, frames, ppHist, lastSamplePos, leavePos,
                    reentry >>

(***************************************************************************)
(* The frame: the useFrame callback (lines 393-456), then the composite of *)
(* the image meshes (lines 469-480) with the uniforms the callback left.   *)
(***************************************************************************)
PrevIndexAliased(current) == (current + 1) % 3

\* line 420
PrevIndex(current) == (current + 2) % 3

NextIndexBackward(current) == (current + 2) % 3

\* line 421
NextIndex(current) == (current + 1) % 3

FrameVelocityRaw(inside, mouse, prev) == Distance(mouse, prev)

\* lines 397-400
FrameVelocity(inside, mouse, prev) == IF inside THEN Distance(mouse, prev) ELSE 0

DisplacementSourceStale(current, next) == current

\* line 436: the buffer every image material samples after the step
DisplacementSource(current, next) == next

AdvancePingPongTwice(current, next) == (next + 1) % 3

\* line 451
AdvancePingPong(current, next) == next

\* lines 454-455
StorePrevMouse(mouse, prev) == mouse

Sampled(mats) == [i \in 1 .. Len(mats) |-> mats[i].uDisplacement]

DrawnAspects(mats) == [i \in 1 .. Len(mats) |-> mats[i].uImageAspect]

\* line 443
ImageAspectSource(aspects, i) == aspects[i]

Tail3(h) == IF Len(h) > 3 THEN SubSeq(h, Len(h) - 2, Len(h)) ELSE h

\* line 394 lets the callback through
FrameStep ==
    /\ phase \in {"committed", "mounted"}
    /\ quadMeshRef # "null"
    /\ frames < MaxFrames
    /\ LET velocity == FrameVelocity(isPointerInsideRef, mouseRef, prevMouseRef)
           current == pingPongRef
           prev == PrevIndex(current)
           next == NextIndex(current)
           u == [uPrevState |-> prev, uCurrentState |-> current,
                 uViscosity |-> settings.viscosity, uDecay |-> settings.decay,
                 uMouse |-> mouseRef, uPrevMouse |-> prevMouseRef,
                 uRadius |-> settings.scale, uIntensity |-> settings.intensity,
                 uMouseVelocity |-> velocity, target |-> next]
       IN  /\ mouseVelocityRef' = velocity
           /\ fluidUniforms' = [uPrevState |-> u.uPrevState,
                                uCurrentState |-> u.uCurrentState,
                                uMouseVelocity |-> u.uMouseVelocity,
                                target |-> u.target]
           /\ renderTargets' =
                  [renderTargets EXCEPT ![u.target] =
                      [c \in Cells |->
                          FluidUpdate(renderTargets[u.uCurrentState],
                                      renderTargets[u.uPrevState], c, u)]]
           /\ imageMaterials' =
                  [i \in 1 .. Len(imageMaterials) |->
                      [imageMaterials[i] EXCEPT
                          !.uDisplacement = DisplacementSource(current, next),
                          !.uImageAspect = ImageAspectSource(imageAspectsRef, i),
                          !.fresh = FALSE]]
           /\ pingPongRef' = AdvancePingPong(current, next)
           /\ prevMouseRef' = StorePrevMouse(mouseRef, prevMouseRef)
           /\ obs' = [stepped |-> TRUE,
                      inside |-> isPointerInsideRef, mouse |-> mouseRef,
                      prev |-> prevMouseRef, last |-> lastSamplePos,
                      leave |-> leavePos,
                      reentry |-> IF reentry = LeftPos THEN NoPos ELSE reentry,
                      velocity |-> velocity,
                      clean |-> \A b \in Buffers : renderTargets[b] = ZeroField,
                      uViscosity |-> u.uViscosity, uDecay |-> u.uDecay,
                      uRadius |-> u.uRadius]
           /\ composite' = [drawn |-> TRUE, stepped |-> TRUE, written |-> next,
                            sampled |-> Sampled(imageMaterials'),
                            fresh |-> \A i \in 1 .. Len(imageMaterials) :
                                          imageMaterials[i].fresh,
                            indexBefore |-> current,
                            aspects |-> DrawnAspects(imageMaterials'),
                            drawnTextures |-> textures,
                            drawnMaterials |-> MaterialIds(imageMaterials)]
    /\ frames' = frames + 1
    /\ ppHist' = Tail3(Append(ppHist, pingPongRef))
    /\ hist' = << renderTargets'[NextIndex(pingPongRef)], hist[1], hist[2] >>
    /\ lastSamplePos' = mouseRef
    /\ leavePos' = NoPos
    /\ reentry' = IF reentry = LeftPos THEN LeftPos ELSE NoPos
    /\ UNCHANGED << settings, phase, mouseRef, isPointerInsideRef, quadMeshRef,
                    textures, cleanupCapture, created, disposed, renders,
                    imageAspectsRef, loaded, probe >>

\* line 394 returns early: no step, and the composite still draws the images
FrameSkipped ==
    /\ phase \in {"committed", "mounted"}
    /\ quadMeshRef = "null"
    /\ obs' = NoObs
    /\ composite' = [drawn |-> TRUE, stepped |-> FALSE, written |-> -1,
                     sampled |-> Sampled(imageMaterials),
                     fresh |-> \A i \in 1 .. Len(imageMaterials) :
                                   imageMaterials[i].fresh,
                     indexBefore |-> pingPongRef,
                     aspects |-> DrawnAspects(imageMaterials),
                     drawnTextures |-> textures,
                     drawnMaterials |-> MaterialIds(imageMaterials)]
    /\ UNCHANGED << imageAspectsRef, loaded, hist, probe >>
    /\ UNCHANGED << settings, phase, mouseRef, prevMouseRef, mouseVelocityRef,
                    isPointerInsideRef, pingPongRef, renderTargets, quadMeshRef,
                    fluidUniforms, textures, imageMaterials, cleanupCapture,
                    created, disposed, renders, frames, ppHist, lastSamplePos,
                    leavePos, reentry >>

Next ==
    \/ RunEffects
    \/ \E p \in ClientPoints : OnMove(p)
    \/ OnLeave
    \/ FrameStep
    \/ FrameSkipped
    \/ ViewportResize
    \/ ImagesChange
    \/ Unmount

Spec == Init /\ [][Next]_vars

\* the mount of a development build: reactStrictMode is on
\* (next.config.mjs line 4), so the effects of lines 277-294 and 459-467
\* run, their cleanups run (the one of lines 460-466 disposes what the
\* first run captured), and the effects run again on the same resources
RunEffectsStrict ==
    /\ phase = "committed"
    /\ phase' = "mounted"
    /\ renderTargets' = ClearRenderTargets(ClearRenderTargets(renderTargets))
    /\ quadMeshRef' = "mesh"
    /\ hist' = << ZeroField, ZeroField, ZeroField >>
    /\ cleanupCapture' =
           FixedResources \cup MaterialIds(imageMaterials) \cup SeqRange(textures)
    /\ disposed' = disposed \cup CleanupDisposes(cleanupCapture', imageMaterials, textures)
    /\ obs' = NoObs
    /\ composite' = NoComposite
    /\ UNCHANGED << settings, mouseRef, prevMouseRef, mouseVelocityRef,
                    isPointerInsideRef, pingPongRef, fluidUniforms, textures,
                    imageMaterials, created, renders, frames, ppHist,
                    lastSamplePos, leavePos, reentry, imageAspectsRef, loaded,
                    probe >>

NextStrict ==
    \/ RunEffectsStrict
    \/ \E p \in ClientPoints : OnMove(p)
    \/ OnLeave
    \/ FrameStep
    \/ FrameSkipped
    \/ ViewportResize
    \/ ImagesChange
    \/ Unmount

SpecStrict == Init /\ [][NextStrict]_vars

\* a field whose cells all hold v
UniformField(v) == [c \in Cells |-> v]

UniformValues == { ONE \div 4, ONE \div 2, ONE }

\* viscosity over [0,1] and decay below 1, the rest as in index.js
UniformSettings ==
    { [intensity |-> 600, scale |-> 500, viscosity |-> a, decay |-> d] :
          a \in { 0, ONE \div 2, 8900, ONE }, d \in { ONE \div 2, 9800 } }

\* mounted, the three render targets hold the same uniform field and the
\* pointer never moves, so that no step injects a ripple
InitUniform ==
    InitState(UniformSettings, "mounted",
              { [b \in Buffers |-> UniformField(v)] : v \in UniformValues },
              "mesh", {NoProbe})

SpecUniform == InitUniform /\ [][FrameStep]_vars

\* settings outside their documented domains: viscosity outside [0,1],
\* decay above 1, a negative radius
OutOfRangeSettings ==
    { [intensity |-> 600, scale |-> 500, viscosity |-> 11000, decay |-> 9800],
      [intensity |-> 600, scale |-> 500, viscosity |-> -1000, decay |-> 9800],
      [intensity |-> 600, scale |-> 500, viscosity |-> 8900, decay |-> 10500],
      [intensity |-> 600, scale |-> -500, viscosity |-> 8900, decay |-> 9800] }

InitConfig ==
    InitState(OutOfRangeSettings, "committed",
              [Buffers -> {ZeroField, GarbageField}], "null", {NoProbe})

SpecConfig == InitConfig /\ [][Next]_vars

\* image.naturalWidth / image.naturalHeight of the image of a texture
NaturalAspect(tex) == ((tex[2] + 3) * ONE) \div 2

\* lines 303-310: the load callback of a texture
LoadedAspects(aspects, tex) == [aspects EXCEPT ![tex[3]] = NaturalAspect(tex)]

TextureLoaded(tex) ==
    /\ tex \in created
    /\ tex[1] = "texture"
    /\ tex \notin loaded
    /\ loaded' = loaded \cup {tex}
    /\ imageAspectsRef' = LoadedAspects(imageAspectsRef, tex)
    /\ obs' = NoObs
    /\ composite' = NoComposite
    /\ UNCHANGED << settings, phase, mouseRef, prevMouseRef, mouseVelocityRef,
                    isPointerInsideRef, pingPongRef, renderTargets, quadMeshRef,
                    fluidUniforms, textures, imageMaterials, cleanupCapture,
                    created, disposed, renders, frames, ppHist, lastSamplePos,
                    leavePos, reentry, hist, probe >>

NextAssets ==
    \/ RunEffects
    \/ \E tex \in created : TextureLoaded(tex)
    \/ FrameStep
    \/ FrameSkipped
    \/ ViewportResize
    \/ ImagesChange
    \/ Unmount

SpecAssets == Init /\ [][NextAssets]_vars

(***************************************************************************)
(* The shaders evaluated on chosen fragments.                              *)
(***************************************************************************)
\* RESOLUTION of line 212
GridResolution == 512

\* vUv of the fragment at cell c of the simulation grid of line 212
GridUv(c) ==
    [x |-> ((2 * c[1] + 1) * ONE) \div (2 * GridResolution),
     y |-> ((2 * c[2] + 1) * ONE) \div (2 * GridResolution)]

\* the four cells whose centre is nearest to (0.5, 0.5)
NearestCells == { 255, 256 } \X { 255, 256 }

\* cells at distance 0.1 or more from (0.5, 0.5)
FarCells == { << 307, 255 >>, << 204, 256 >>, << 255, 332 >>, << 0, 0 >>, << 511, 511 >> }

ProbeCells == FarCells \cup { << 255, 255 >>, << 260, 255 >>, << 270, 262 >> }

\* uPrevMouse: the pointer itself, the centre of a far cell, a point whose
\* trail passes a far cell, and two corners
PrevPositions ==
    { InitialMouse, GridUv(<< 307, 255 >>), [x |-> 7000, y |-> ONE \div 2],
      [x |-> 0, y |-> ONE], [x |-> ONE, y |-> 0] }

\* uMouseVelocity, up to 2.0
Velocities == { 1, 2, 500, 1000, ONE, 2 * ONE }

ImageUvs ==
    { [x |-> 0, y |-> 0], [x |-> ONE, y |-> ONE], [x |-> ONE \div 2, y |-> ONE \div 2],
      [x |-> 0, y |-> ONE \div 2], [x |-> 2500, y |-> 7500] }

Aspects == { ONE \div 2, ONE, 15000, 17777 }

FlatDisplacement == [left |-> 0, right |-> 0, top |-> 0, bottom |-> 0]

\* the four samples of uDisplacement of calculateNormal
Neighbourhoods ==
    { FlatDisplacement,
      [left |-> 20, right |-> 0, top |-> 0, bottom |-> 0],
      [left |-> 0, right |-> 0, top |-> 100, bottom |-> 40] }

ProbeInputs ==
    { [kind |-> "injection", done |-> FALSE, cell |-> c, prev |-> q, velocity |-> v] :
          c \in ProbeCells, q \in PrevPositions, v \in Velocities }
    \cup
    { [kind |-> "image", done |-> FALSE, vUv |-> uv, d |-> d, imageAspect |-> a,
       planeAspect |-> b] :
          uv \in ImageUvs, d \in Neighbourhoods, a \in Aspects, b \in Aspects }
    \cup
    { [kind |-> "cover", done |-> FALSE, uv |-> uv, imageAspect |-> a,
       planeAspect |-> b] :
          uv \in ImageUvs, a \in Aspects \cup { 3 }, b \in Aspects \cup { 3 } }

\* the uniforms of lines 404-416 with the pointer at (0.5, 0.5)
ProbeUniforms(s, pr) ==
    [uViscosity |-> s.viscosity, uDecay |-> s.decay, uMouse |-> InitialMouse,
     uPrevMouse |-> pr.prev, uRadius |-> s.scale, uIntensity |-> s.intensity,
     uMouseVelocity |-> pr.velocity]

\* lines 37-80 for the fragment at uv when the three buffers hold 0
StepOnZero(uv, u) ==
    DampedWave(ZeroField, ZeroField, << 0, 0 >>, u) + InjectedAt(uv, u)

NotProgram ==
    UNCHANGED << settings, phase, mouseRef, prevMouseRef, mouseVelocityRef,
                 isPointerInsideRef, pingPongRef, renderTargets, quadMeshRef,
                 fluidUniforms, textures, imageMaterials, cleanupCapture,
                 created, disposed, renders, frames, ppHist, lastSamplePos,
                 leavePos, reentry, obs, composite, imageAspectsRef, loaded,
                 hist >>

\* one simulation step on zero buffers, seen at the probed cell and at the
\* cells nearest to the pointer
EvalFluidUpdate ==
    /\ probe.kind = "injection"
    /\ ~probe.done
    /\ LET u == ProbeUniforms(settings, probe)
       IN  probe' =
               [kind |-> "injection", done |-> TRUE, cell |-> probe.cell,
                prev |-> probe.prev, velocity |-> probe.velocity,
                near |-> [n \in NearestCells |-> StepOnZero(GridUv(n), u)],
                at |-> StepOnZero(GridUv(probe.cell), u),
                term |-> InjectedAt(GridUv(probe.cell), u)]
    /\ NotProgram

\* one fragment of the composite of an image plane
EvalImageFragment ==
    /\ probe.kind = "image"
    /\ ~probe.done
    /\ probe' =
           [kind |-> "image", done |-> TRUE, vUv |-> probe.vUv, d |-> probe.d,
            imageAspect |-> probe.imageAspect, planeAspect |-> probe.planeAspect,
            out |-> ImageFragment(probe.vUv, probe.d, probe.imageAspect,
                                  probe.planeAspect, ImageSettings)]
    /\ NotProgram

EvalCoverUv ==
    /\ probe.kind = "cover"
    /\ ~probe.done
    /\ probe' =
           [kind |-> "cover", done |-> TRUE, uv |-> probe.uv,
            imageAspect |-> probe.imageAspect, planeAspect |-> probe.planeAspect,
            out |-> CoverUv(probe.uv, probe.imageAspect, probe.planeAspect)]
    /\ NotProgram

InitShader ==
    InitState(SettingsSet, "committed", { [b \in Buffers |-> ZeroField] },
              "null", ProbeInputs)

NextShader ==
    \/ EvalFluidUpdate
    \/ EvalImageFragment
    \/ EvalCoverUv

SpecShader == InitShader /\ [][NextShader]_vars

(***************************************************************************)
(* Properties.                                                             *)
(***************************************************************************)
Roles(c) == << PrevIndex(c), c, NextIndex(c) >>

\* C1: buffer-role rotation.  Right after an executed step the buffer that
\* was bound as `next` (the render target of the step) is `current`, and
\* once three steps have run the index, hence the prev/current/next
\* assignment, equals the one before those three steps.
C1_Rotation ==
    /\ obs.stepped => pingPongRef = fluidUniforms.target
    /\ Len(ppHist) = 3 =>
           /\ ppHist[1] = pingPongRef
           /\ Roles(ppHist[1]) = Roles(pingPongRef)
           /\ ppHist[2] # ppHist[1] /\ ppHist[3] # ppHist[1]

\* three steps have just run from starting index 2
C1_Witness == obs.stepped /\ Len(ppHist) = 3 /\ ppHist[1] = 2 /\ frames = 5

\* C2: in every step the write target differs from both read inputs, and
\* prev, current and next are three pairwise distinct buffers.
C2_NoAliasing ==
    /\ Cardinality({PrevIndex(pingPongRef), pingPongRef, NextIndex(pingPongRef)}) = 3
    /\ frames > 0 =>
           /\ fluidUniforms.target # fluidUniforms.uPrevState
           /\ fluidUniforms.target # fluidUniforms.uCurrentState
           /\ fluidUniforms.uPrevState # fluidUniforms.uCurrentState
           /\ {fluidUniforms.target, fluidUniforms.uPrevState,
               fluidUniforms.uCurrentState} = Buffers

\* the third step has just written buffer 0 while reading buffers 1 and 2
C2_Witness ==
    /\ obs.stepped /\ frames = 3
    /\ fluidUniforms.target = 0
    /\ fluidUniforms.uPrevState = 1
    /\ fluidUniforms.uCurrentState = 2

\* C3: a frame that samples the pointer while it is outside passes velocity
\* 0 to the simulation step, whatever the stored positions are.
C3_OutsideZeroVelocity ==
    obs.stepped /\ ~obs.inside =>
        /\ fluidUniforms.uMouseVelocity = 0
        /\ mouseVelocityRef = 0

\* a frame sampled the pointer outside while the stored current and previous
\* positions were far apart
C3_Witness ==
    /\ obs.stepped /\ ~obs.inside
    /\ Distance(obs.mouse, obs.prev) > VelocityThreshold
    /\ fluidUniforms.uMouseVelocity = 0

\* C4 as stated: for any interleaving of onMove and onLeave between two
\* consecutive frames, a frame that samples the pointer inside gets the
\* distance between the position now and the position at the previous
\* frame's sample; and after every executed frame previous = current.
C4_Original ==
    obs.stepped =>
        /\ obs.inside /\ obs.last # NoPos =>
               fluidUniforms.uMouseVelocity = Distance(obs.mouse, obs.last)
        /\ prevMouseRef = mouseRef

\* C4 as amended: the distance is measured from the position at the previous
\* frame's sample unless an onLeave happened since that sample, and then
\* from the position held at the most recent onLeave; and after every
\* executed frame previous = current.
C4_Amended ==
    obs.stepped =>
        /\ obs.inside /\ obs.last # NoPos =>
               fluidUniforms.uMouseVelocity =
                   Distance(obs.mouse,
                            IF obs.leave # NoPos THEN obs.leave ELSE obs.last)
        /\ prevMouseRef = mouseRef

\* between two frames the pointer moved, left, and came back elsewhere
C4_Witness ==
    /\ obs.stepped /\ obs.inside
    /\ obs.last # NoPos /\ obs.leave # NoPos /\ obs.leave # obs.last
    /\ obs.mouse # obs.leave
    /\ fluidUniforms.uMouseVelocity > 0

\* C5: after an onLeave and a re-entry through an in-bounds onMove, the
\* first frame after the re-entry samples a velocity that counts only the
\* movement made after the re-entry: the distance from the re-entry
\* position to the position at the frame.
C5_NoSpikeOnReentry ==
    obs.stepped /\ obs.reentry # NoPos /\ obs.inside =>
        fluidUniforms.uMouseVelocity = Distance(obs.mouse, obs.reentry)

\* C6: onMove stores the normalized point and sets the inside flag when the
\* point lies in the unit square, otherwise clears the flag and keeps the
\* position; it changes neither the previous position nor the buffer
\* index; the stored current position is always in the unit square.
C6_OnMove ==
    /\ [](/\ mouseRef.x >= 0 /\ mouseRef.x <= ONE
          /\ mouseRef.y >= 0 /\ mouseRef.y <= ONE)
    /\ [][\A p \in ClientPoints :
            OnMove(p) =>
                LET x == ((p[1] - CanvasRect.left) * ONE) \div CanvasRect.width
                    y == ONE - ((p[2] - CanvasRect.top) * ONE) \div CanvasRect.height
                    in == x >= 0 /\ x <= ONE /\ y >= 0 /\ y <= ONE
                IN  /\ in => isPointerInsideRef' /\ mouseRef' = [x |-> x, y |-> y]
                    /\ ~in => ~isPointerInsideRef' /\ mouseRef' = mouseRef
                    /\ prevMouseRef' = prevMouseRef
                    /\ pingPongRef' = pingPongRef]_vars

\* an out-of-bounds onMove (no onLeave since the last frame) followed an
\* in-bounds onMove to the corner: the flag is cleared, the corner is kept
C6_Witness ==
    /\ ~isPointerInsideRef
    /\ mouseRef = [x |-> 0, y |-> ONE]
    /\ mouseRef # prevMouseRef
    /\ leavePos = NoPos

\* C7: a step whose velocity does not exceed 0.0001 writes, for every cell,
\* decay * mix(current, 2*neighborAvg - prev, viscosity): no ripple term.
C7_NoRippleBelowThreshold ==
    obs.stepped /\ fluidUniforms.uMouseVelocity <= VelocityThreshold =>
        \A c \in Cells :
            LET cur == renderTargets[fluidUniforms.uCurrentState]
                prv == renderTargets[fluidUniforms.uPrevState]
                neighborAvg ==
                    Mul(Texel(cur, c, -1, 0) + Texel(cur, c, 1, 0)
                            + Texel(cur, c, 0, 1) + Texel(cur, c, 0, -1),
                        ONE \div 4)
            IN  renderTargets[fluidUniforms.target][c] =
                    Mul(Mix(cur[c], 2 * neighborAvg - prv[c], settings.viscosity),
                        settings.decay)

\* a step ran with the pointer inside, velocity exactly 0.0001, at the
\* centre of a field that an earlier ripple has disturbed
C7_Witness ==
    /\ obs.stepped /\ obs.inside
    /\ fluidUniforms.uMouseVelocity = VelocityThreshold
    /\ renderTargets[fluidUniforms.uCurrentState] # ZeroField
    /\ renderTargets[fluidUniforms.target] # ZeroField

\* C8 as stated: at every composite every image layer samples the buffer
\* written by the simulation step of that same frame.
C8_Original ==
    composite.drawn =>
        /\ composite.stepped
        /\ \A i \in DOMAIN composite.sampled :
               composite.sampled[i] = composite.written

\* C8 as amended: at every composite of a frame whose simulation step
\* executed, every image layer samples the buffer that step wrote.
C8_Amended ==
    composite.drawn /\ composite.stepped =>
        /\ composite.written = fluidUniforms.target
        /\ composite.written = NextIndex(composite.indexBefore)
        /\ Len(composite.sampled) = NumImages
        /\ \A i \in DOMAIN composite.sampled :
               composite.sampled[i] = composite.written

\* the first frame after the image materials were re-created, with the
\* rotating index at 1: the layers sample buffer 2, not their initial 0
C8_Witness ==
    /\ composite.drawn /\ composite.stepped /\ composite.fresh
    /\ renders > 0
    /\ composite.indexBefore = 1
    /\ \A i \in DOMAIN composite.sampled : composite.sampled[i] = 2

\* C9: the first executed simulation step finds every cell of each of the
\* three buffers at 0.
C9_ClearedBeforeFirstStep ==
    /\ obs.stepped /\ frames = 1 => obs.clean
    /\ frames = 0 /\ quadMeshRef # "null" =>
           \A b \in Buffers : \A c \in Cells : renderTargets[b][c] = 0

\* the first step has just run on cleared buffers
C9_Witness == obs.stepped /\ frames = 1 /\ obs.clean /\ phase = "mounted"

\* C10: after teardown every GPU resource created during the lifetime has
\* been released.
C10_AllReleased == phase = "unmounted" => created \subseteq disposed


\* what the frame just run touched: the render targets, the quad geometry
\* and the simulation material when the step ran, and the image materials,
\* their textures and the displacement texture they sample in the composite
FrameResources ==
    (IF composite.stepped THEN FixedResources ELSE {})
        \cup composite.drawnMaterials
        \cup SeqRange(composite.drawnTextures)
        \cup { << "renderTarget", composite.sampled[i] >> :
                   i \in 1 .. Len(composite.sampled) }

\* C11: teardown is safe.  No frame steps or composites with a resource on
\* which the teardown cleanup has called dispose(), whatever the order of
\* mount, cleanup and re-mount of the effects, the strict-mode one
\* included.
C11_NoReleasedResourceUsed ==
    composite.drawn => FrameResources \cap disposed = {}

IsUniform(field) == \A c, d \in Cells : field[c] = field[d]

\* the value of a uniform field
UniformValue(field) == field[<< 0, 0 >>]

\* C12: energy decay, one step.  From three buffers uniformly v > 0, with
\* no ripple injected and decay < 1, the first step writes v * decay into
\* every cell, the edge cells included, whatever the viscosity in [0,1].
C12_OneStepDecay ==
    (frames = 1 /\ obs.stepped) =>
        \A c \in Cells :
            renderTargets[pingPongRef][c] = Mul(UniformValue(hist[2]), settings.decay)

C12_Witness ==
    /\ frames = 1
    /\ obs.stepped
    /\ settings.viscosity = ONE
    /\ UniformValue(hist[2]) = ONE
    /\ renderTargets[pingPongRef][<< 0, RESOLUTION - 1 >>] = settings.decay

\* C13 as stated: every step keeps the field uniform and writes a value
\* strictly below the value of the step before and not below 0.
C13_Original ==
    obs.stepped =>
        /\ IsUniform(hist[1])
        /\ UniformValue(hist[1]) < UniformValue(hist[2])
        /\ UniformValue(hist[1]) >= 0

\* C13, amended: every step keeps the field uniform and writes
\* decay * mix(x, 2x - y, viscosity), x and y being the values of the two
\* fields before it; with viscosity 0 this is strictly below x and not
\* below 0.
C13_Amended ==
    obs.stepped =>
        LET x == UniformValue(hist[2])
            y == UniformValue(hist[3])
        IN  /\ IsUniform(hist[1])
            /\ renderTargets[pingPongRef] = hist[1]
            /\ UniformValue(hist[1])
                   = Mul(Mix(x, 2 * x - y, settings.viscosity), settings.decay)
            /\ settings.viscosity = 0 =>
                   /\ UniformValue(hist[1]) < x
                   /\ UniformValue(hist[1]) >= 0

\* the third step with viscosity 1 and decay 0.5 writes a negative value
C13_Witness ==
    /\ obs.stepped
    /\ frames >= 3
    /\ settings.viscosity = ONE
    /\ IsUniform(hist[1])
    /\ UniformValue(hist[1]) < 0

\* the pure-function evaluations never run in the program's own behaviours
InjectionDone == probe.kind = "injection" /\ probe.done

\* the scenario of C14: velocity 1.0, radius 0.05, intensity 0.06 and a
\* probed cell at distance 0.1 or more from the pointer
C14Scenario ==
    /\ InjectionDone
    /\ probe.velocity = ONE
    /\ settings.scale = 500
    /\ settings.intensity = 600
    /\ Distance(GridUv(probe.cell), InitialMouse) >= ONE \div 10

\* the probed cell is 70% of the radius or more away from each of the 8
\* trail samples of the loop of lines 66-72
AwayFromTrail ==
    \A i \in 0 .. 7 :
        Distance(GridUv(probe.cell),
                 MixPos(probe.prev, InitialMouse, (i * ONE) \div 8))
            >= Mul(settings.scale, (7 * ONE) \div 10)

\* C14 as stated: after one step on zero buffers the cells nearest the
\* pointer hold strictly more than every cell at distance >= 0.1, whatever
\* the previous pointer position.
C14_Original ==
    C14Scenario =>
        \A n \in NearestCells : probe.near[n] > probe.at

\* C14, amended: ... strictly more than every cell at distance >= 0.1 that
\* is also at least 70% of the radius away from each trail sample.
C14_Amended ==
    (C14Scenario /\ AwayFromTrail) =>
        \A n \in NearestCells : probe.near[n] > probe.at

C14_Witness ==
    /\ C14Scenario
    /\ AwayFromTrail
    /\ probe.prev = [x |-> 7000, y |-> ONE \div 2]
    /\ probe.cell = << 255, 332 >>
    /\ probe.at = 0
    /\ \A n \in NearestCells : probe.near[n] > 590

\* C17: cover-fit identity.  coverUv(uv, a, a) = uv for every uv and every
\* aspect a > 0.
C17_CoverIdentity ==
    (probe.kind = "cover" /\ probe.done /\ probe.imageAspect = probe.planeAspect) =>
        probe.out = probe.uv

C17_Witness ==
    /\ probe.kind = "cover"
    /\ probe.done
    /\ probe.imageAspect = 17777
    /\ probe.planeAspect = 17777
    /\ probe.uv = [x |-> 2500, y |-> 7500]
    /\ probe.out = probe.uv

\* a fragment composited over a displacement field that is zero everywhere
FlatFragment ==
    /\ probe.kind = "image"
    /\ probe.done
    /\ probe.d = FlatDisplacement

\* C18 as stated: on a flat zero displacement field rippleMask, the specular
\* and the fresnel contribution are 0 and the colour is the texture sampled
\* at the cover-fitted uv, for every uv of the plane, its edges included.
C18_Original ==
    FlatFragment =>
        /\ probe.out.rippleMask = 0
        /\ probe.out.specular = 0
        /\ probe.out.fresnel = 0
        /\ probe.out.color
               = Texture2D(CoverUv(probe.vUv, probe.imageAspect, probe.planeAspect))

\* C18, amended: ... and the colour is the texture sampled at the
\* cover-fitted uv clamped into [0.001, 0.999].
C18_Amended ==
    FlatFragment =>
        /\ probe.out.rippleMask = 0
        /\ probe.out.specular = 0
        /\ probe.out.fresnel = 0
        /\ probe.out.color
               = Texture2D(ClampUv(CoverUv(probe.vUv, probe.imageAspect,
                                           probe.planeAspect)))

\* a fragment at the corner of a plane whose image fits without cropping
C18_Witness ==
    /\ FlatFragment
    /\ probe.vUv = [x |-> 0, y |-> 0]
    /\ probe.imageAspect = probe.planeAspect
    /\ probe.out.color = Texture2D([x |-> ONE \div 1000, y |-> ONE \div 1000])
    /\ probe.out.color # Texture2D(probe.vUv)

\* the 9 falloff candidates of lines 61-72: one at the pointer with the
\* full radius, 8 along the segment with 70% of the radius
Candidates(uv, u) ==
    { Pow2(Smoothstep(u.uRadius, 0, Distance(uv, u.uMouse))) }
        \cup { Pow2(Smoothstep(Mul(u.uRadius, (7 * ONE) \div 10), 0,
                               Distance(uv, MixPos(u.uPrevMouse, u.uMouse,
                                                   (i * ONE) \div 8)))) :
                   i \in 0 .. 7 }

SetMax(S) == CHOOSE x \in S : \A y \in S : y <= x

\* C19: bounded injection amplitude.  The ripple term a step adds to a cell
\* is the maximum of the 9 candidates times intensity * min(velocity*10, 1)
\* and lies in [0, intensity], however large the velocity.
C19_BoundedInjection ==
    InjectionDone =>
        LET u == ProbeUniforms(settings, probe)
        IN  /\ InjectsRipple(probe.velocity) =>
                   probe.term
                       = Mul(Mul(SetMax(Candidates(GridUv(probe.cell), u)),
                                 settings.intensity),
                             Min(probe.velocity * 10, ONE))
            /\ probe.term >= 0
            /\ probe.term <= settings.intensity

C19_Witness ==
    /\ InjectionDone
    /\ probe.velocity = 2 * ONE
    /\ probe.prev = GridUv(probe.cell)
    /\ probe.term = settings.intensity

\* C15: out-of-range configuration is clamped.  The viscosity, decay and
\* radius a step uses are the supplied values clamped into [0,1], (0,1]
\* and [0, oo).
C15_ConfigClamped ==
    obs.stepped =>
        /\ obs.uViscosity = Clamp(settings.viscosity, 0, ONE)
        /\ obs.uDecay = Clamp(settings.decay, 0, ONE)
        /\ obs.uRadius = Max(settings.scale, 0)

\* C16: asset unavailable.  Every composite of an image layer whose image
\* has not finished loading uses the default imageAspect 1.0, whatever
\* other images have loaded and however the image list has changed.
C16_DefaultAspect ==
    composite.drawn =>
        \A i \in 1 .. Len(composite.drawnTextures) :
            composite.drawnTextures[i] \notin loaded => composite.aspects[i] = ONE

\* the buffers hold the two most recent fields of the reference model
\* h' = F(h, h_prev), and the step just run read exactly those two and
\* wrote the third buffer
TwoHistory ==
    /\ renderTargets[pingPongRef] = hist[1]
    /\ renderTargets[PrevIndex(pingPongRef)] = hist[2]
    /\ obs.stepped =>
           /\ renderTargets[fluidUniforms.uCurrentState] = hist[2]
           /\ renderTargets[fluidUniforms.uPrevState] = hist[3]
           /\ fluidUniforms.target
                  \notin { fluidUniforms.uCurrentState, fluidUniforms.uPrevState }
           /\ renderTargets[fluidUniforms.target] = hist[1]

\* C20: the rotating three buffers refine the two-history reference model.
\* In every reachable state the buffer at `current` holds the field written
\* by the most recent step and the buffer at `prev` the field of the step
\* before, each step reading those two and overwriting only the third; and
\* a frame that returns early at the quad-mesh guard changes neither the
\* buffers, nor the index, nor the stored pointer positions.
C20_Refinement ==
    /\ []TwoHistory
    /\ [][FrameSkipped =>
              UNCHANGED << renderTargets, pingPongRef, mouseRef, prevMouseRef,
                           hist >>]_vars

C20_Witness ==
    /\ obs.stepped
    /\ frames >= 3
    /\ hist[1] # hist[2]
    /\ hist[2] # hist[3]
    /\ hist[1] # ZeroField
    /\ renderTargets[pingPongRef] = hist[1]
    /\ renderTargets[PrevIndex(pingPongRef)] = hist[2]
====
